---- MODULE Spec2Model ----
(***************************************************************************)
(* A model of the IEEE 802.11 frame classes declared in include/dot11.h    *)
(* (libtins): the frame-control bit fields, the per-class headers and      *)
(* bodies, the tagged-option list, serialization and parsing.              *)
(*                                                                         *)
(* Only the header is part of the sources.  What the header fixes (the     *)
(* enumerations, the struct layouts and their sizes, the inline size       *)
(* helpers, the parameter and field widths, the access rights of the       *)
(* members) is modelled from it.  The bodies that live in the .cpp file    *)
(* are modelled from the specification document and are marked so in       *)
(* MODEL_MAP.json.  Bit fields follow the little-endian branch of the      *)
(* header (the first declared field is the least significant).             *)
(***************************************************************************)
EXTENDS Integers, Sequences, FiniteSets, TLC

VARIABLES frame, copy, wire, call

vars == <<frame, copy, wire, call>>

(***************************************************************************)
(* Bounds of the model.                                                    *)
(***************************************************************************)
MaxOptions == 3

(***************************************************************************)
(* Constants of dot11.h.                                                   *)
(***************************************************************************)
ADDR_SIZE == 6

MANAGEMENT == 0
CONTROL == 1
DATA == 2

SSID == 0
SUPPORTED_RATES == 1
DS_SET == 3
RSN == 48
EXT_SUPPORTED_RATES == 50

ASSOC_REQ == 0
ASSOC_RESP == 1
REASSOC_REQ == 2
REASSOC_RESP == 3
PROBE_REQ == 4
PROBE_RESP == 5
BEACON == 8
ATIM == 9
DISASSOC == 10
AUTH == 11
DEAUTH == 12

BLOCK_ACK_REQ == 8
BLOCK_ACK == 9
PS == 10
RTS == 11
CTS == 12
ACK == 13
CF_END == 14
CF_END_ACK == 15

DATA_DATA == 0
QOS_DATA_DATA == 8

(***************************************************************************)
(* Bytes and integer widths.                                               *)
(***************************************************************************)
uint8(x) == x % 256

Zeros(n) == [i \in 1..n |-> 0]

Fill(n, b) == [i \in 1..n |-> b]

LE16(x) == <<x % 256, (x \div 256) % 256>>

BoolToInt(b) == IF b THEN 1 ELSE 0

BROADCAST == Fill(ADDR_SIZE, 255)

ZeroAddr == Zeros(ADDR_SIZE)

(***************************************************************************)
(* The classes of the hierarchy.                                           *)
(***************************************************************************)
ManagementVariants ==
    {"Dot11Beacon", "Dot11Disassoc", "Dot11AssocRequest", "Dot11AssocResponse",
     "Dot11ReAssocRequest", "Dot11ReAssocResponse", "Dot11Authentication",
     "Dot11Deauthentication", "Dot11ProbeRequest", "Dot11ProbeResponse"}

ManagementClasses == ManagementVariants \cup {"Dot11ManagementFrame"}

ControlTAClasses ==
    {"Dot11RTS", "Dot11PSPoll", "Dot11CFEnd", "Dot11EndCFAck",
     "Dot11BlockAckRequest", "Dot11BlockAck"}

ControlClasses == ControlTAClasses \cup {"Dot11Control", "Dot11Ack"}

DataClasses == {"Dot11Data", "Dot11QoSData"}

\* The classes with a public constructor.
Constructible ==
    ManagementVariants \cup ControlClasses \cup DataClasses \cup {"Dot11"}

\* The concrete frame variants: each stands for one (type, subtype).
ConcreteVariants ==
    ManagementVariants \cup ControlTAClasses \cup DataClasses \cup {"Dot11Ack"}

\* The (type, subtype) each concrete variant stands for.
Canonical(cls) ==
    CASE cls = "Dot11Beacon" -> [type |-> MANAGEMENT, subtype |-> BEACON]
      [] cls = "Dot11Disassoc" -> [type |-> MANAGEMENT, subtype |-> DISASSOC]
      [] cls = "Dot11AssocRequest" -> [type |-> MANAGEMENT, subtype |-> ASSOC_REQ]
      [] cls = "Dot11AssocResponse" -> [type |-> MANAGEMENT, subtype |-> ASSOC_RESP]
      [] cls = "Dot11ReAssocRequest" -> [type |-> MANAGEMENT, subtype |-> REASSOC_REQ]
      [] cls = "Dot11ReAssocResponse" -> [type |-> MANAGEMENT, subtype |-> REASSOC_RESP]
      [] cls = "Dot11Authentication" -> [type |-> MANAGEMENT, subtype |-> AUTH]
      [] cls = "Dot11Deauthentication" -> [type |-> MANAGEMENT, subtype |-> DEAUTH]
      [] cls = "Dot11ProbeRequest" -> [type |-> MANAGEMENT, subtype |-> PROBE_REQ]
      [] cls = "Dot11ProbeResponse" -> [type |-> MANAGEMENT, subtype |-> PROBE_RESP]
      [] cls = "Dot11RTS" -> [type |-> CONTROL, subtype |-> RTS]
      [] cls = "Dot11PSPoll" -> [type |-> CONTROL, subtype |-> PS]
      [] cls = "Dot11CFEnd" -> [type |-> CONTROL, subtype |-> CF_END]
      [] cls = "Dot11EndCFAck" -> [type |-> CONTROL, subtype |-> CF_END_ACK]
      [] cls = "Dot11Ack" -> [type |-> CONTROL, subtype |-> ACK]
      [] cls = "Dot11BlockAckRequest" -> [type |-> CONTROL, subtype |-> BLOCK_ACK_REQ]
      [] cls = "Dot11BlockAck" -> [type |-> CONTROL, subtype |-> BLOCK_ACK]
      [] cls = "Dot11Data" -> [type |-> DATA, subtype |-> DATA_DATA]
      [] cls = "Dot11QoSData" -> [type |-> DATA, subtype |-> QOS_DATA_DATA]
      [] cls = "Dot11ManagementFrame" -> [type |-> MANAGEMENT, subtype |-> 0]
      [] cls = "Dot11Control" -> [type |-> CONTROL, subtype |-> 0]
      [] OTHER -> [type |-> 0, subtype |-> 0]

(***************************************************************************)
(* Sizes of the structs of the header (packed, or with the padding the     *)
(* LP64 ABI gives a struct that is not declared packed).                   *)
(***************************************************************************)
sizeof_control == 2

\* A common header that holds a second address.
sizeof_ieee80211_header_two_addresses ==
    sizeof_control + 2 + ADDR_SIZE + ADDR_SIZE

sizeof_ieee80211_header == sizeof_control + 2 + ADDR_SIZE

sizeof_ExtendedHeader == ADDR_SIZE + ADDR_SIZE + 2

sizeof_addr4 == ADDR_SIZE

sizeof_taddr == ADDR_SIZE

sizeof_CapabilityInformation == 2

\* A bitmap of 128 bits.
sizeof_bitmap_128 == 8 + 8

\* uint8_t _bitmap[8]
sizeof_bitmap == 8

\* sizeof(_body) of each management variant.
sizeof_body(cls) ==
    CASE cls = "Dot11Beacon" -> 8 + 2 + sizeof_CapabilityInformation
      [] cls = "Dot11ProbeResponse" -> 8 + 2 + sizeof_CapabilityInformation + 4
      [] cls = "Dot11Disassoc" -> 2
      [] cls = "Dot11Deauthentication" -> 2
      [] cls = "Dot11AssocRequest" -> sizeof_CapabilityInformation + 2
      [] cls = "Dot11AssocResponse" -> sizeof_CapabilityInformation + 2 + 2
      [] cls = "Dot11ReAssocRequest" -> sizeof_CapabilityInformation + 2 + ADDR_SIZE
      [] cls = "Dot11ReAssocResponse" -> sizeof_CapabilityInformation + 2 + 2
      [] cls = "Dot11Authentication" -> 2 + 2 + 2
      [] OTHER -> 0

(***************************************************************************)
(* A frame object.  Every class shares the record shape; the members a     *)
(* class does not have stay at their initial value.                        *)
(***************************************************************************)
NoFrame == [cls |-> "none"]

NewFrame(cls, dst_hw_addr, child) ==
    [cls |-> cls,
     protocol |-> 0,
     type |-> Canonical(cls).type,
     subtype |-> Canonical(cls).subtype,
     to_ds |-> FALSE, from_ds |-> FALSE, more_frag |-> FALSE, retry |-> FALSE,
     power_mgmt |-> FALSE, more_data |-> FALSE, wep |-> FALSE, order |-> FALSE,
     duration_id |-> 0,
     addr1 |-> dst_hw_addr,
     addr2 |-> ZeroAddr, addr3 |-> ZeroAddr,
     frag_number |-> 0, seq_number |-> 0,
     addr4 |-> ZeroAddr,
     taddr |-> ZeroAddr,
     body |-> Zeros(sizeof_body(cls)),
     qos_control |-> 0,
     bar_reserved |-> 0, bar_tid |-> 0,
     ss_frag |-> 0, ss_seq |-> 0,
     bitmap |-> Zeros(IF cls = "Dot11BlockAck" THEN sizeof_bitmap ELSE 0),
     options |-> <<>>,
     options_size |-> 0,
     child |-> child]

(***************************************************************************)
(* The tagged options.                                                     *)
(***************************************************************************)
Take(s, n) == SubSeq(s, 1, IF n < Len(s) THEN n ELSE Len(s))

Drop(s, n) == SubSeq(s, n + 1, Len(s))

\* A constructor that keeps the whole buffer it is given.
Dot11Option_whole_value(opt, len, val) ==
    [option |-> uint8(opt), length |-> uint8(len), value |-> val]

\* Dot11Option(uint8_t opt, uint8_t len, const uint8_t *val): both numbers
\* are converted to uint8_t at the call, and len bytes of val are copied.
Dot11Option(opt, len, val) ==
    [option |-> uint8(opt),
     length |-> uint8(len),
     value |-> Take(val, uint8(len))]

\* data_size(): the length field.
data_size(o) == o.length

\* Dot11::add_tagged_option: the option is appended and its size is added
\* to _options_size.  The function returns nothing and reports no error.
add_tagged_option(f, opt, len, val) ==
    [f EXCEPT !.options = Append(@, Dot11Option(opt, len, val)),
              !.options_size = @ + uint8(len) + 2]

RECURSIVE search_from(_, _, _)
search_from(opts, i, opt) ==
    IF i > Len(opts) THEN 0
    ELSE IF opts[i].option = uint8(opt) THEN i
    ELSE search_from(opts, i + 1, opt)

RECURSIVE search_back(_, _, _)
search_back(opts, i, opt) ==
    IF i < 1 THEN 0
    ELSE IF opts[i].option = uint8(opt) THEN i
    ELSE search_back(opts, i - 1, opt)

\* A lookup that scans from the back of the list.
search_option_last(f, opt) == search_back(f.options, Len(f.options), opt)

\* Dot11::search_option: the position of the option found (the model's
\* pointer to it), or 0 if no such option has been set.
search_option(f, opt) == search_from(f.options, 1, opt)

(***************************************************************************)
(* Sizes.                                                                  *)
(***************************************************************************)
\* sizeof(_ext_header) + (from_ds() && to_ds()) ? sizeof(_addr4) : 0
\* In C the sum binds tighter than ?: , so the sum is the condition.
management_frame_size(f) ==
    IF (sizeof_ExtendedHeader + BoolToInt(f.from_ds /\ f.to_ds)) # 0
    THEN sizeof_addr4 ELSE 0

\* The same expression in Dot11Data.
data_frame_size(f) ==
    IF (sizeof_ExtendedHeader + BoolToInt(f.from_ds /\ f.to_ds)) # 0
    THEN sizeof_addr4 ELSE 0

controlta_size(f) == sizeof_taddr + sizeof_ieee80211_header

Dot11_header_size(f) == sizeof_ieee80211_header + f.options_size

Dot11ManagementFrame_header_size(f) ==
    Dot11_header_size(f) + management_frame_size(f)

Dot11Data_header_size(f) == Dot11_header_size(f) + data_frame_size(f)

Dot11ControlTA_header_size(f) == controlta_size(f) + f.options_size

\* header_size(), as the class of the frame overrides it.
header_size(f) ==
    CASE f.cls \in ManagementClasses ->
             Dot11ManagementFrame_header_size(f) + sizeof_body(f.cls)
      [] f.cls = "Dot11Data" -> Dot11Data_header_size(f)
      [] f.cls = "Dot11QoSData" -> Dot11Data_header_size(f) + 2
      [] f.cls = "Dot11BlockAckRequest" ->
             Dot11ControlTA_header_size(f) + 2 + 2
      [] f.cls = "Dot11BlockAck" ->
             Dot11ControlTA_header_size(f) + 2 + 2 + sizeof_bitmap
      [] f.cls \in ControlTAClasses -> Dot11ControlTA_header_size(f)
      [] OTHER -> Dot11_header_size(f)

child_size(f) == Len(f.child)

\* PDU::size(): the header and the inner PDU.
size(f) == header_size(f) + child_size(f)

(***************************************************************************)
(* Serialization.                                                          *)
(***************************************************************************)
\* The first byte of the frame control: protocol:2, type:2, subtype:4.
control_byte0(protocol, ty, sub) == protocol + 4 * ty + 16 * sub

\* The second byte: to_ds, from_ds, more_frag, retry, power_mgmt,
\* more_data, wep, order, one bit each.
\* The flags in the reverse order, order in the low bit.
control_byte1_order_first(f) ==
    128 * BoolToInt(f.to_ds) + 64 * BoolToInt(f.from_ds)
    + 32 * BoolToInt(f.more_frag) + 16 * BoolToInt(f.retry)
    + 8 * BoolToInt(f.power_mgmt) + 4 * BoolToInt(f.more_data)
    + 2 * BoolToInt(f.wep) + BoolToInt(f.order)

control_byte1(f) ==
    BoolToInt(f.to_ds) + 2 * BoolToInt(f.from_ds)
    + 4 * BoolToInt(f.more_frag) + 8 * BoolToInt(f.retry)
    + 16 * BoolToInt(f.power_mgmt) + 32 * BoolToInt(f.more_data)
    + 64 * BoolToInt(f.wep) + 128 * BoolToInt(f.order)

\* A write of the type the struct holds.
wire_type_stored(f) == f.type

\* The type and the subtype a frame is written with: those of its variant,
\* whatever the struct holds; a generic frame writes what it holds.
wire_type(f) ==
    IF f.cls \in ConcreteVariants THEN Canonical(f.cls).type ELSE f.type

wire_subtype(f) ==
    IF f.cls \in ConcreteVariants THEN Canonical(f.cls).subtype ELSE f.subtype

write_header(f) ==
    <<control_byte0(f.protocol, wire_type(f), wire_subtype(f)),
      control_byte1(f)>>
    \o LE16(f.duration_id) \o f.addr1

\* seq_control of a management frame: frag_number:4, seq_number:12.
management_seq_control(f) == LE16(f.frag_number + 16 * f.seq_number)

\* seq_control of a data frame: seq_number:12, frag_number:4.
data_seq_control(f) == LE16(f.seq_number + 4096 * f.frag_number)

\* A bar control with the TID in the low bits.
bar_control_word_tid_first(f) == LE16(f.bar_tid + 16 * f.bar_reserved)

\* BarControl: reserved:12, tid:4.
bar_control_word(f) == LE16(f.bar_reserved + 4096 * f.bar_tid)

\* StartSequence: frag:4, seq:12.
start_sequence_word(f) == LE16(f.ss_frag + 16 * f.ss_seq)

write_ext_header(f) ==
    CASE f.cls \in ManagementClasses ->
             f.addr2 \o f.addr3 \o management_seq_control(f)
      [] f.cls \in DataClasses ->
             f.addr2 \o f.addr3 \o data_seq_control(f)
             \o (IF f.to_ds /\ f.from_ds THEN f.addr4 ELSE <<>>)
      [] f.cls = "Dot11BlockAckRequest" ->
             f.taddr \o bar_control_word(f) \o start_sequence_word(f)
      [] f.cls = "Dot11BlockAck" ->
             f.taddr \o bar_control_word(f) \o start_sequence_word(f)
             \o f.bitmap
      [] f.cls \in ControlTAClasses -> f.taddr
      [] OTHER -> <<>>

write_fixed_parameters(f) ==
    CASE f.cls \in ManagementClasses -> f.body
      [] f.cls = "Dot11QoSData" -> LE16(f.qos_control)
      [] OTHER -> <<>>

RECURSIVE write_options(_)
write_options(opts) ==
    IF opts = <<>> THEN <<>>
    ELSE <<Head(opts).option, Head(opts).length>> \o Head(opts).value
         \o write_options(Tail(opts))

\* Dot11::write_serialization: the common header, the extended header, the
\* fixed parameters and the options, in this order.
write_serialization(f) ==
    write_header(f) \o write_ext_header(f) \o write_fixed_parameters(f)
    \o write_options(f.options)

\* PDU::serialize: one buffer of size() bytes is allocated and the frame,
\* then its inner PDU, are written into it; a write that would pass the end
\* of the buffer fails with Truncated.
serialize(f) ==
    LET out == write_serialization(f) \o f.child
    IN  IF Len(out) > size(f)
        THEN [ok |-> FALSE, error |-> "Truncated", bytes |-> <<>>]
        ELSE [ok |-> TRUE, error |-> "none",
              bytes |-> out \o Zeros(size(f) - Len(out))]

\* Serialization into a buffer of total_sz bytes the caller provides: the
\* frame and its inner PDU are written if they fit, and nothing is written
\* when they do not.
serialize_into(f, total_sz) ==
    LET out == write_serialization(f) \o f.child
    IN  IF Len(out) > total_sz
        THEN [ok |-> FALSE, error |-> "Truncated", bytes |-> <<>>]
        ELSE [ok |-> TRUE, error |-> "none",
              bytes |-> out \o Zeros(total_sz - Len(out))]

(***************************************************************************)
(* Parsing.                                                                *)
(***************************************************************************)
\* The fields of the first frame-control byte.
control_protocol(b) == b % 4

control_type(b) == (b \div 4) % 4

\* A subtype read one bit too low.
control_subtype_shifted(b) == (b \div 8) % 16

control_subtype(b) == (b \div 16) % 16

bit(b, i) == ((b \div (2 ^ i)) % 2) = 1

word16(lo, hi) == lo + 256 * hi

Failure(e) == [ok |-> FALSE, error |-> e, frame |-> NoFrame]

Success(f) == [ok |-> TRUE, error |-> "none", frame |-> f]

\* The class from_bytes constructs for a (type, subtype).  The constructors
\* of Dot11ManagementFrame are protected and the class names no friend, so
\* a management frame of no known subtype can only be a plain Dot11.
dispatch(ty, sub) ==
    CASE ty = MANAGEMENT /\ sub = BEACON -> "Dot11Beacon"
      [] ty = MANAGEMENT /\ sub = DISASSOC -> "Dot11Disassoc"
      [] ty = MANAGEMENT /\ sub = ASSOC_REQ -> "Dot11AssocRequest"
      [] ty = MANAGEMENT /\ sub = ASSOC_RESP -> "Dot11AssocResponse"
      [] ty = MANAGEMENT /\ sub = REASSOC_REQ -> "Dot11ReAssocRequest"
      [] ty = MANAGEMENT /\ sub = REASSOC_RESP -> "Dot11ReAssocResponse"
      [] ty = MANAGEMENT /\ sub = AUTH -> "Dot11Authentication"
      [] ty = MANAGEMENT /\ sub = DEAUTH -> "Dot11Deauthentication"
      [] ty = MANAGEMENT /\ sub = PROBE_REQ -> "Dot11ProbeRequest"
      [] ty = MANAGEMENT /\ sub = PROBE_RESP -> "Dot11ProbeResponse"
      [] ty = CONTROL /\ sub = RTS -> "Dot11RTS"
      [] ty = CONTROL /\ sub = PS -> "Dot11PSPoll"
      [] ty = CONTROL /\ sub = CF_END -> "Dot11CFEnd"
      [] ty = CONTROL /\ sub = CF_END_ACK -> "Dot11EndCFAck"
      [] ty = CONTROL /\ sub = ACK -> "Dot11Ack"
      [] ty = CONTROL /\ sub = BLOCK_ACK_REQ -> "Dot11BlockAckRequest"
      [] ty = CONTROL /\ sub = BLOCK_ACK -> "Dot11BlockAck"
      [] ty = DATA /\ sub = QOS_DATA_DATA -> "Dot11QoSData"
      [] ty = DATA -> "Dot11Data"
      [] ty = CONTROL -> "Dot11Control"
      [] OTHER -> "Dot11"

\* A parse that stops at a record that does not fit and keeps the frame.
RECURSIVE parse_tagged_parameters_lenient(_, _)
parse_tagged_parameters_lenient(f, buf) ==
    IF Len(buf) < 2 THEN [ok |-> TRUE, error |-> "none", frame |-> f]
    ELSE IF buf[2] > Len(buf) - 2 THEN [ok |-> TRUE, error |-> "none", frame |-> f]
    ELSE parse_tagged_parameters_lenient(
             add_tagged_option(f, buf[1], buf[2], SubSeq(buf, 3, 2 + buf[2])),
             Drop(buf, 2 + buf[2]))

\* Dot11::parse_tagged_parameters: tag | length | value records until the
\* buffer is exhausted; a record that does not fit fails with Truncated.
RECURSIVE parse_tagged_parameters(_, _)
parse_tagged_parameters(f, buf) ==
    IF buf = <<>> THEN Success(f)
    ELSE IF Len(buf) < 2 THEN Failure("Truncated")
    ELSE IF buf[2] > Len(buf) - 2 THEN Failure("Truncated")
    ELSE parse_tagged_parameters(
             add_tagged_option(f, buf[1], buf[2], SubSeq(buf, 3, 2 + buf[2])),
             Drop(buf, 2 + buf[2]))

\* Dot11(const uint8_t *buffer, uint32_t total_sz): the common header.
parse_header(cls, b) ==
    [NewFrame(cls, SubSeq(b, 5, 10), <<>>) EXCEPT
        !.protocol = control_protocol(b[1]),
        !.type = control_type(b[1]),
        !.subtype = control_subtype(b[1]),
        !.to_ds = bit(b[2], 0), !.from_ds = bit(b[2], 1),
        !.more_frag = bit(b[2], 2), !.retry = bit(b[2], 3),
        !.power_mgmt = bit(b[2], 4), !.more_data = bit(b[2], 5),
        !.wep = bit(b[2], 6), !.order = bit(b[2], 7),
        !.duration_id = word16(b[3], b[4])]

\* The bytes the extended header of a frame takes in a buffer.
ext_header_length(f) ==
    CASE f.cls \in ManagementClasses -> sizeof_ExtendedHeader
      [] f.cls \in DataClasses ->
             sizeof_ExtendedHeader
             + (IF f.to_ds /\ f.from_ds THEN sizeof_addr4 ELSE 0)
      [] f.cls = "Dot11BlockAckRequest" -> sizeof_taddr + 2 + 2
      [] f.cls = "Dot11BlockAck" -> sizeof_taddr + 2 + 2 + sizeof_bitmap
      [] f.cls \in ControlTAClasses -> sizeof_taddr
      [] OTHER -> 0

\* A frame without fixed parameters.
fixed_parameters_length_none(f) == 0

fixed_parameters_length(f) ==
    CASE f.cls \in ManagementClasses -> sizeof_body(f.cls)
      [] f.cls = "Dot11QoSData" -> 2
      [] OTHER -> 0

\* The extended header, read from the bytes e.
parse_ext_header(f, e) ==
    CASE f.cls \in ManagementClasses ->
             [f EXCEPT !.addr2 = SubSeq(e, 1, 6), !.addr3 = SubSeq(e, 7, 12),
                       !.frag_number = word16(e[13], e[14]) % 16,
                       !.seq_number = word16(e[13], e[14]) \div 16]
      [] f.cls \in DataClasses ->
             [f EXCEPT !.addr2 = SubSeq(e, 1, 6), !.addr3 = SubSeq(e, 7, 12),
                       !.seq_number = word16(e[13], e[14]) % 4096,
                       !.frag_number = word16(e[13], e[14]) \div 4096,
                       !.addr4 = IF Len(e) > sizeof_ExtendedHeader
                                 THEN SubSeq(e, 15, 20) ELSE @]
      [] f.cls \in {"Dot11BlockAckRequest", "Dot11BlockAck"} ->
             [f EXCEPT !.taddr = SubSeq(e, 1, 6),
                       !.bar_reserved = word16(e[7], e[8]) % 4096,
                       !.bar_tid = word16(e[7], e[8]) \div 4096,
                       !.ss_frag = word16(e[9], e[10]) % 16,
                       !.ss_seq = word16(e[9], e[10]) \div 16,
                       !.bitmap = SubSeq(e, 11, Len(e))]
      [] f.cls \in ControlTAClasses -> [f EXCEPT !.taddr = SubSeq(e, 1, 6)]
      [] OTHER -> f

parse_fixed_parameters(f, p) ==
    CASE f.cls \in ManagementClasses -> [f EXCEPT !.body = p]
      [] f.cls = "Dot11QoSData" -> [f EXCEPT !.qos_control = word16(p[1], p[2])]
      [] OTHER -> f

\* Dot11::from_bytes: the frame of the class the (type, subtype) of the
\* buffer selects, or the error the parse ends with.
from_bytes(b) ==
    IF Len(b) < sizeof_control THEN Failure("Truncated")
    ELSE
    LET cls == dispatch(control_type(b[1]), control_subtype(b[1]))
    IN  IF Len(b) < sizeof_ieee80211_header THEN Failure("Truncated")
        ELSE
        LET h == parse_header(cls, b)
            el == ext_header_length(h)
            pl == fixed_parameters_length(h)
            o1 == sizeof_ieee80211_header
        IN  IF Len(b) < o1 + el + pl THEN Failure("Truncated")
            ELSE
            LET x == parse_ext_header(h, SubSeq(b, o1 + 1, o1 + el))
                y == parse_fixed_parameters(
                         x, SubSeq(b, o1 + el + 1, o1 + el + pl))
                rest == Drop(b, o1 + el + pl)
            IN  CASE cls \in ManagementClasses ->
                         parse_tagged_parameters(y, rest)
                  [] cls \in DataClasses -> Success([y EXCEPT !.child = rest])
                  [] OTHER -> Success(y)

(***************************************************************************)
(* The state machine: one frame object, a copy of it, the buffer the last  *)
(* serialization returned (held by the caller until it is released), and   *)
(* the last call with its arguments and its error.                         *)
(***************************************************************************)
NoBuffer == [held |-> FALSE, bytes |-> <<>>]

Call(op, n, bytes, err) == [op |-> op, n |-> n, bytes |-> bytes, err |-> err]

Alive == frame.cls # "none"

\* The frame may be changed: it exists and the caller holds no buffer.
Mutable == Alive /\ ~wire.held

\* Inputs of the operations.
Addresses == {ZeroAddr, BROADCAST}

Children == {<<>>, <<170, 187>>}

TypeInputs == {CONTROL, DATA, 3}

SubtypeInputs == {PROBE_REQ, BLOCK_ACK, CTS}

\* Whole bar_control and start_sequence fields: TID 5 alone, the value 5
\* alone, and sequence number 0x123 with fragment 0.
BarInputs == {20480, 5}

SeqInputs == {4656}

\* A bitmap buffer of 16 different bytes.
BitmapInputs == {[i \in 1..16 |-> 16 + i]}

OptionInputs == {<<SSID, 255>>, <<SSID, 256>>}

SsidInputs == {<<97>>, <<98, 99>>}

ChannelInputs == {6}

\* The frames a constructor gives.
Fresh ==
    {NewFrame(cls, dst, <<>>) : cls \in Constructible, dst \in Addresses}
    \cup {NewFrame(cls, ZeroAddr, ch) : cls \in DataClasses, ch \in Children}

Init ==
    /\ frame \in Fresh
    /\ copy = NoFrame
    /\ wire = NoBuffer
    /\ call = Call("constructor", 0, <<>>, "none")

\* void type(uint8_t new_type): the field is two bits wide.
type(new_type) ==
    /\ Mutable
    /\ frame' = [frame EXCEPT !.type = new_type % 4]
    /\ call' = Call("type", new_type, <<>>, "none")
    /\ UNCHANGED <<copy, wire>>

\* void subtype(uint8_t new_subtype): the field is four bits wide.
subtype(new_subtype) ==
    /\ Mutable
    /\ frame' = [frame EXCEPT !.subtype = new_subtype % 16]
    /\ call' = Call("subtype", new_subtype, <<>>, "none")
    /\ UNCHANGED <<copy, wire>>

to_ds(new_value) ==
    /\ Mutable
    /\ frame' = [frame EXCEPT !.to_ds = new_value]
    /\ call' = Call("to_ds", BoolToInt(new_value), <<>>, "none")
    /\ UNCHANGED <<copy, wire>>

from_ds(new_value) ==
    /\ Mutable
    /\ frame' = [frame EXCEPT !.from_ds = new_value]
    /\ call' = Call("from_ds", BoolToInt(new_value), <<>>, "none")
    /\ UNCHANGED <<copy, wire>>

\* uint16_t bar_control() const { return _bar_control.tid; }
bar_control_getter(f) == f.bar_tid

\* uint16_t start_sequence() const
\*     { return (_start_sequence.frag << 12) | (_start_sequence.seq); }
start_sequence_getter(f) == (4096 * f.ss_frag + f.ss_seq) % 65536

\* void bar_control(uint16_t bar): the new bar control field, reserved in
\* the low 12 bits and the TID in the high 4.
bar_control(bar) ==
    /\ Mutable
    /\ frame.cls \in {"Dot11BlockAckRequest", "Dot11BlockAck"}
    /\ frame' = [frame EXCEPT !.bar_reserved = bar % 4096,
                              !.bar_tid = (bar \div 4096) % 16]
    /\ call' = Call("bar_control", bar, <<>>, "none")
    /\ UNCHANGED <<copy, wire>>

\* void start_sequence(uint16_t seq): the new start sequence field, the
\* fragment in the low 4 bits and the sequence number in the high 12.
start_sequence(seq) ==
    /\ Mutable
    /\ frame.cls \in {"Dot11BlockAckRequest", "Dot11BlockAck"}
    /\ frame' = [frame EXCEPT !.ss_frag = seq % 16,
                              !.ss_seq = (seq \div 16) % 4096]
    /\ call' = Call("start_sequence", seq, <<>>, "none")
    /\ UNCHANGED <<copy, wire>>

\* void Dot11BlockAck::bitmap(const uint8_t *bit): sizeof(_bitmap) bytes are
\* copied from the buffer.
bitmap(new_bitmap) ==
    /\ Mutable
    /\ frame.cls = "Dot11BlockAck"
    /\ frame' = [frame EXCEPT !.bitmap = Take(new_bitmap, sizeof_bitmap)]
    /\ call' = Call("bitmap", Len(new_bitmap), new_bitmap, "none")
    /\ UNCHANGED <<copy, wire>>

\* add_tagged_option(opt, len, val), called with a value of len bytes.
AddTaggedOption(opt, len, val) ==
    /\ Mutable
    /\ Len(frame.options) < MaxOptions
    /\ frame' = add_tagged_option(frame, opt, len, val)
    /\ call' = Call("add_tagged_option", len, <<opt>>, "none")
    /\ UNCHANGED <<copy, wire>>

\* Dot11ManagementFrame::ssid(const std::string &new_ssid).  The option list
\* is a private member of Dot11: a derived class reaches it through
\* add_tagged_option and search_option alone, so the helper adds an option.
ssid(new_ssid) ==
    /\ Mutable
    /\ frame.cls \in ManagementClasses
    /\ Len(frame.options) < MaxOptions
    /\ frame' = add_tagged_option(frame, SSID, Len(new_ssid), new_ssid)
    /\ call' = Call("ssid", Len(new_ssid), new_ssid, "none")
    /\ UNCHANGED <<copy, wire>>

\* Dot11ManagementFrame::ds_parameter_set(uint8_t current_channel).
ds_parameter_set(current_channel) ==
    /\ Mutable
    /\ frame.cls \in ManagementClasses
    /\ Len(frame.options) < MaxOptions
    /\ frame' = add_tagged_option(frame, DS_SET, 1, <<uint8(current_channel)>>)
    /\ call' = Call("ds_parameter_set", current_channel,
                    <<uint8(current_channel)>>, "none")
    /\ UNCHANGED <<copy, wire>>

\* PDU::serialize on the frame; the caller holds the buffer it returns.
Serialize ==
    /\ Mutable
    /\ LET r == serialize(frame)
       IN  /\ wire' = [held |-> r.ok, bytes |-> r.bytes]
           /\ call' = Call("serialize", size(frame), <<>>, r.error)
    /\ UNCHANGED <<frame, copy>>

\* The caller frees the buffer.
Release ==
    /\ wire.held
    /\ wire' = NoBuffer
    /\ call' = Call("release", 0, <<>>, "none")
    /\ UNCHANGED <<frame, copy>>

\* Dot11::from_bytes(buffer, total_sz): the frame is now the parsed one; a
\* failed parse gives no frame.
FromBytes(buffer) ==
    /\ LET r == from_bytes(buffer)
       IN  /\ frame' = r.frame
           /\ call' = Call("from_bytes", Len(buffer), buffer, r.error)
    /\ wire' = NoBuffer
    /\ UNCHANGED copy

\* A copy of the header fields and the child alone.
Dot11_copy_without_options(other) ==
    [other EXCEPT !.options = <<>>, !.options_size = 0]

\* Dot11(const Dot11 &other): every member is copied, the options by value.
Dot11_copy(other) == other

CopyConstruct ==
    /\ Mutable
    /\ copy = NoFrame
    /\ copy' = Dot11_copy(frame)
    /\ call' = Call("copy", 0, <<>>, "none")
    /\ UNCHANGED <<frame, wire>>

\* operator=(const Dot11 &other), with the copy as the right-hand side.
CopyAssign ==
    /\ ~wire.held
    /\ copy # NoFrame
    /\ frame' = Dot11_copy(copy)
    /\ call' = Call("operator=", 0, <<>>, "none")
    /\ UNCHANGED <<copy, wire>>

\* PDU *clone_pdu() const: a new frame that is a copy of this one.
ClonePdu ==
    /\ Mutable
    /\ copy = NoFrame
    /\ copy' = Dot11_copy(frame)
    /\ call' = Call("clone_pdu", 0, <<>>, "none")
    /\ UNCHANGED <<frame, wire>>

\* The buffers from_bytes is given: frame controls of every kind with
\* bodies of several lengths, and probe requests with option chains.
FrameControls == {128, 64, 196, 148, 8, 136, 180, 212, 164, 144, 12, 4, 72}

BufferLengths == {1, 2, 9, 10, 16, 24, 28, 36, 40}

Chains ==
    {<<>>, <<0, 1, 97>>, <<0, 1, 97, 3, 1, 6>>, <<0, 2, 97>>,
     <<0, 1, 97, 3>>, <<3, 0>>, <<0, 1, 97, 0, 1, 98, 3, 1, 6>>,
     <<0, 1, 97, 3, 4, 6>>}

ProbeRequestHeader == <<64, 0>> \o Zeros(22)

ChainBuffers == {ProbeRequestHeader \o c : c \in Chains}

TestBuffers ==
    {<<fc>> \o Zeros(n - 1) : fc \in FrameControls, n \in BufferLengths}
    \cup ChainBuffers

(***************************************************************************)
(* Spec: the header fields of a frame of any class, and serialization.     *)
(***************************************************************************)
Next ==
    \/ \E t \in TypeInputs : type(t)
    \/ \E s \in SubtypeInputs : subtype(s)
    \/ \E v \in BOOLEAN : to_ds(v)
    \/ \E v \in BOOLEAN : from_ds(v)
    \/ \E b \in BarInputs : bar_control(b)
    \/ \E q \in SeqInputs : start_sequence(q)
    \/ \E b \in BitmapInputs : bitmap(b)
    \/ Serialize
    \/ Release
    \/ wire.held /\ FromBytes(wire.bytes)

Spec == Init /\ [][Next]_vars

(***************************************************************************)
(* SpecOptions: the option list of a plain frame and of a probe request.   *)
(***************************************************************************)
InitOptions ==
    /\ frame \in {NewFrame(cls, ZeroAddr, <<>>) :
                      cls \in {"Dot11", "Dot11ProbeRequest"}}
                 \cup {NewFrame("Dot11", ZeroAddr, ch) : ch \in Children}
    /\ copy = NoFrame
    /\ wire = NoBuffer
    /\ call = Call("constructor", 0, <<>>, "none")

NextOptions ==
    \/ \E o \in OptionInputs : AddTaggedOption(o[1], o[2], Fill(o[2], 255))
    \/ \E s \in SsidInputs : ssid(s)
    \/ \E c \in ChannelInputs : ds_parameter_set(c)
    \/ Serialize
    \/ Release
    \/ wire.held /\ FromBytes(wire.bytes)
    \/ \E b \in ChainBuffers : copy = NoFrame /\ FromBytes(b)
    \/ CopyConstruct
    \/ CopyAssign
    \/ ClonePdu

SpecOptions == InitOptions /\ [][NextOptions]_vars

(***************************************************************************)
(* SpecParse: from_bytes on the test buffers.                              *)
(***************************************************************************)
InitParse ==
    /\ frame = NoFrame
    /\ copy = NoFrame
    /\ wire = NoBuffer
    /\ call = Call("none", 0, <<>>, "none")

NextParse == \E b \in TestBuffers : FromBytes(b)

SpecParse == InitParse /\ [][NextParse]_vars

(***************************************************************************)
(* The information-element helpers of a management frame.  A rate is held  *)
(* in tenths of a Mbps (5.5 Mbps is 55), an RSNInformation as a record.    *)
(***************************************************************************)
\* The most rates one Supported Rates option holds.
MaxRatesPerOption == 8

\* A rate in 500 kbps units without the basic-rate bit.
rate_byte_plain(r) == uint8((r + 4) \div 5)

\* One rate as a byte: the rate in 500 kbps units, with the high bit set.
rate_byte(r) ==
    LET left == uint8((r + 4) \div 5)
    IN  IF left >= 128 THEN left ELSE left + 128

rates_buffer(rates) == [i \in 1..Len(rates) |-> rate_byte(rates[i])]

\* The rate a byte of a rates option stands for.
decode_rate(b) == (b % 128) * 5

\* A helper that puts every rate into one Supported Rates option.
set_supported_rates_unsplit(f, rates) ==
    add_tagged_option(f, SUPPORTED_RATES, Len(rates), rates_buffer(rates))

\* Dot11ManagementFrame::supported_rates: the first 8 rates go into a
\* Supported Rates option, the others into an Extended Supported Rates one.
set_supported_rates(f, rates) ==
    LET first == Take(rates, MaxRatesPerOption)
        rest == Drop(rates, MaxRatesPerOption)
        f1 == add_tagged_option(f, SUPPORTED_RATES, Len(first),
                                rates_buffer(first))
    IN  IF Len(rates) <= MaxRatesPerOption THEN f1
        ELSE add_tagged_option(f1, EXT_SUPPORTED_RATES, Len(rest),
                               rates_buffer(rest))

\* RSNInformation::CypherSuites and AKMSuites.
WEP_40 == 28053248
TKIP == 44830464
CCMP == 78384896
WEP_104 == 95162112
PMKSA == 28053248
PSK == 44830464

LE32(x) ==
    <<x % 256, (x \div 256) % 256, (x \div 65536) % 256,
      (x \div 16777216) % 256>>

\* The four bytes of a suite, highest byte first.
suite_bytes_high_first(s) ==
    <<(s \div 16777216) % 256, (s \div 65536) % 256, (s \div 256) % 256,
      s % 256>>

\* The four bytes a suite constant takes in memory: 0x04ac0f00 is
\* 00 0F AC 04.
suite_bytes(s) == LE32(s)

RECURSIVE suites_bytes(_)
suites_bytes(l) ==
    IF l = <<>> THEN <<>> ELSE suite_bytes(Head(l)) \o suites_bytes(Tail(l))

\* RSNInformation(): version 1, nothing else set.
RSNInformation ==
    [version |-> 1, capabilities |-> 0, group_suite |-> CCMP,
     pairwise_cyphers |-> <<>>, akm_cyphers |-> <<>>]

\* RSNInformation::wpa2_psk().
wpa2_psk ==
    [RSNInformation EXCEPT !.group_suite = CCMP,
                           !.pairwise_cyphers = <<CCMP>>,
                           !.akm_cyphers = <<PSK>>]

\* RSNInformation::serialize.
RSNInformation_serialize(info) ==
    LE16(info.version) \o suite_bytes(info.group_suite)
    \o LE16(Len(info.pairwise_cyphers)) \o suites_bytes(info.pairwise_cyphers)
    \o LE16(Len(info.akm_cyphers)) \o suites_bytes(info.akm_cyphers)
    \o LE16(info.capabilities)

word32(b, i) ==
    b[i] + 256 * b[i + 1] + 65536 * b[i + 2] + 16777216 * b[i + 3]

\* The n suites of a payload that start at byte i.
read_suites(b, i, n) == [k \in 1..n |-> word32(b, i + 4 * (k - 1))]

\* A decoder that takes the suites that fit and reports no error.
RSNInformation_decode_lenient(b) ==
    IF Len(b) < 8 THEN [ok |-> TRUE, error |-> "none", info |-> RSNInformation]
    ELSE
    LET want == word16(b[7], b[8])
        fit == (Len(b) - 8) \div 4
        pc == IF want <= fit THEN want ELSE fit
    IN  [ok |-> TRUE, error |-> "none",
         info |-> [RSNInformation EXCEPT
                      !.version = word16(b[1], b[2]),
                      !.group_suite = word32(b, 3),
                      !.pairwise_cyphers = read_suites(b, 9, pc)]]

\* The decoding of an RSN payload: every fixed field and every suite a count
\* declares has to lie inside the payload.
RSNInformation_decode(b) ==
    IF Len(b) < 8 THEN [ok |-> FALSE, error |-> "InvalidRsn", info |-> <<>>]
    ELSE
    LET pc == word16(b[7], b[8])
        a0 == 8 + 4 * pc
    IN  IF Len(b) < a0 + 2
        THEN [ok |-> FALSE, error |-> "InvalidRsn", info |-> <<>>]
        ELSE
        LET ac == word16(b[a0 + 1], b[a0 + 2])
            c0 == a0 + 2 + 4 * ac
        IN  IF Len(b) < c0 + 2
            THEN [ok |-> FALSE, error |-> "InvalidRsn", info |-> <<>>]
            ELSE [ok |-> TRUE, error |-> "none",
                  info |-> [version |-> word16(b[1], b[2]),
                            capabilities |-> word16(b[c0 + 1], b[c0 + 2]),
                            group_suite |-> word32(b, 3),
                            pairwise_cyphers |-> read_suites(b, 9, pc),
                            akm_cyphers |-> read_suites(b, a0 + 3, ac)]]

\* Dot11Beacon::rsn_information(RSNInformation *rsn): the RSN option of the
\* frame, decoded; a frame without the option has none set.
get_rsn_information(f) ==
    LET i == search_option(f, RSN)
    IN  IF i = 0 THEN [ok |-> FALSE, error |-> "not set", info |-> <<>>]
        ELSE RSNInformation_decode(f.options[i].value)

\* Inputs of the helpers.
RateLists ==
    {<<10, 20, 55, 110, 60>>,
     <<10, 20, 55, 110, 60, 90, 120, 180>>,
     <<10, 20, 55, 110, 60, 90, 120, 180, 240>>,
     <<10, 20, 55, 110, 60, 90, 120, 180, 240, 360, 480, 540>>}

RsnInputs == {wpa2_psk, [wpa2_psk EXCEPT !.pairwise_cyphers = <<CCMP, TKIP>>]}

\* RSN payloads that end early or declare more suites than they hold.
RsnPayloads ==
    {<<1, 0, 0>>,
     <<1, 0, 0, 15, 172, 4, 5, 0, 0, 15, 172, 4>>,
     Take(RSNInformation_serialize(wpa2_psk), 18),
     <<1, 0, 0, 15, 172, 4, 2, 0, 0, 15, 172, 4, 1, 0, 0, 15, 172, 2, 0, 0>>,
     <<1, 0, 0, 15, 172, 4, 1, 0, 0, 15, 172, 4, 5, 0, 0, 15, 172, 2, 0, 0>>}

supported_rates(new_rates) ==
    /\ Mutable
    /\ frame.cls \in ManagementClasses
    /\ Len(frame.options) + 2 <= MaxOptions
    /\ frame' = set_supported_rates(frame, new_rates)
    /\ call' = Call("supported_rates", Len(new_rates), new_rates, "none")
    /\ UNCHANGED <<copy, wire>>

\* Dot11ManagementFrame::rsn_information(const RSNInformation& info).
rsn_information(info) ==
    /\ Mutable
    /\ frame.cls \in ManagementClasses
    /\ Len(frame.options) < MaxOptions
    /\ LET b == RSNInformation_serialize(info)
       IN  /\ frame' = add_tagged_option(frame, RSN, Len(b), b)
           /\ call' = Call("rsn_information", Len(b), info, "none")
    /\ UNCHANGED <<copy, wire>>

\* bool Dot11Beacon::rsn_information(RSNInformation *rsn).
rsn_information_getter ==
    /\ Mutable
    /\ frame.cls = "Dot11Beacon"
    /\ LET r == get_rsn_information(frame)
       IN  call' = Call("rsn_information_getter", BoolToInt(r.ok), r.info,
                        r.error)
    /\ UNCHANGED <<frame, copy, wire>>

(***************************************************************************)
(* SpecIE: the rates and RSN helpers of a beacon and of a probe request.   *)
(***************************************************************************)
InitIE ==
    /\ frame \in {NewFrame(cls, BROADCAST, <<>>) :
                      cls \in {"Dot11Beacon", "Dot11ProbeRequest"}}
    /\ copy = NoFrame
    /\ wire = NoBuffer
    /\ call = Call("constructor", 0, <<>>, "none")

NextIE ==
    \/ \E l \in RateLists : supported_rates(l)
    \/ \E i \in RsnInputs : rsn_information(i)
    \/ \E b \in RsnPayloads : AddTaggedOption(RSN, Len(b), b)
    \/ rsn_information_getter

SpecIE == InitIE /\ [][NextIE]_vars

(***************************************************************************)
(* The PDU tags of the frames: pdu_type() and matches_flag(flag), as the   *)
(* classes define them inline.                                             *)
(***************************************************************************)
\* The tags of PDU::PDUType the classes of the header name.
PDUTypes ==
    {"DOT11", "DOT11_MANAGEMENT", "DOT11_BEACON", "DOT11_DIASSOC",
     "DOT11_ASSOC_REQ", "DOT11_ASSOC_RESP", "DOT11_REASSOC_REQ", "DOT11_AUTH",
     "DOT11_DEAUTH", "DOT11_PROBE_REQ", "DOT11_PROBE_RESP", "DOT11_DATA",
     "DOT11_QOS_DATA", "DOT11_CONTROL", "DOT11_RTS", "DOT11_PS_POLL",
     "DOT11_CF_END", "DOT11_END_CF_ACK", "DOT11_ACK", "DOT11_BLOCK_ACK_REQ",
     "DOT11_BLOCK_ACK"}

\* class X : public Y.
base_class(cls) ==
    CASE cls = "Dot11" -> "PDU"
      [] cls \in ManagementClasses \ {"Dot11ManagementFrame"}
             -> "Dot11ManagementFrame"
      [] cls = "Dot11ManagementFrame" -> "Dot11"
      [] cls = "Dot11Data" -> "Dot11"
      [] cls = "Dot11QoSData" -> "Dot11Data"
      [] cls = "Dot11Control" -> "Dot11"
      [] cls = "Dot11ControlTA" -> "Dot11Control"
      [] cls = "Dot11Ack" -> "Dot11Control"
      [] cls \in ControlTAClasses -> "Dot11ControlTA"
      [] OTHER -> "PDU"

\* Every class of the header, the two with protected constructors included.
Dot11Classes == Constructible \cup {"Dot11ManagementFrame", "Dot11ControlTA"}

\* The classes a class derives from, nearest first, PDU left out.
RECURSIVE ancestors(_)
ancestors(cls) ==
    IF base_class(cls) = "PDU" THEN <<>>
    ELSE <<base_class(cls)>> \o ancestors(base_class(cls))

\* PDUType pdu_type() const of each class; Dot11ControlTA inherits the one
\* of Dot11Control.
pdu_type(cls) ==
    CASE cls = "Dot11" -> "DOT11"
      [] cls = "Dot11ManagementFrame" -> "DOT11_MANAGEMENT"
      [] cls = "Dot11Beacon" -> "DOT11_BEACON"
      [] cls = "Dot11Disassoc" -> "DOT11_DIASSOC"
      [] cls = "Dot11AssocRequest" -> "DOT11_ASSOC_REQ"
      [] cls = "Dot11AssocResponse" -> "DOT11_ASSOC_RESP"
      [] cls = "Dot11ReAssocRequest" -> "DOT11_REASSOC_REQ"
      [] cls = "Dot11ReAssocResponse" -> "DOT11_ASSOC_RESP"
      [] cls = "Dot11Authentication" -> "DOT11_AUTH"
      [] cls = "Dot11Deauthentication" -> "DOT11_DEAUTH"
      [] cls = "Dot11ProbeRequest" -> "DOT11_PROBE_REQ"
      [] cls = "Dot11ProbeResponse" -> "DOT11_PROBE_RESP"
      [] cls = "Dot11Data" -> "DOT11_DATA"
      [] cls = "Dot11QoSData" -> "DOT11_QOS_DATA"
      [] cls = "Dot11Control" -> "DOT11_CONTROL"
      [] cls = "Dot11ControlTA" -> "DOT11_CONTROL"
      [] cls = "Dot11RTS" -> "DOT11_RTS"
      [] cls = "Dot11PSPoll" -> "DOT11_PS_POLL"
      [] cls = "Dot11CFEnd" -> "DOT11_CF_END"
      [] cls = "Dot11EndCFAck" -> "DOT11_END_CF_ACK"
      [] cls = "Dot11Ack" -> "DOT11_ACK"
      [] cls = "Dot11BlockAckRequest" -> "DOT11_BLOCK_ACK_REQ"
      [] cls = "Dot11BlockAck" -> "DOT11_BLOCK_ACK"
      [] OTHER -> "UNKNOWN"

\* bool matches_flag(PDUType flag) of each class: the tag the body names, or
\* the matches_flag of the class the body calls.
RECURSIVE matches_flag(_, _)
matches_flag(cls, flag) ==
    CASE cls = "Dot11" -> flag = "DOT11"
      [] cls = "Dot11ManagementFrame" ->
             flag = "DOT11_MANAGEMENT" \/ matches_flag("Dot11", flag)
      [] cls = "Dot11Beacon" ->
             flag = "DOT11_BEACON" \/ matches_flag("Dot11ManagementFrame", flag)
      [] cls = "Dot11Disassoc" ->
             flag = "DOT11_DIASSOC" \/ matches_flag("Dot11ManagementFrame", flag)
      [] cls = "Dot11AssocRequest" ->
             flag = "DOT11_ASSOC_REQ"
             \/ matches_flag("Dot11ManagementFrame", flag)
      [] cls = "Dot11AssocResponse" ->
             flag = "DOT11_ASSOC_RESP"
             \/ matches_flag("Dot11ManagementFrame", flag)
      [] cls = "Dot11ReAssocRequest" ->
             flag = "DOT11_REASSOC_REQ"
             \/ matches_flag("Dot11ManagementFrame", flag)
      [] cls = "Dot11ReAssocResponse" ->
             flag = "DOT11_ASSOC_RESP"
             \/ matches_flag("Dot11ManagementFrame", flag)
      [] cls = "Dot11Authentication" ->
             flag = "DOT11_AUTH" \/ matches_flag("Dot11ManagementFrame", flag)
      [] cls = "Dot11Deauthentication" ->
             flag = "DOT11_DEAUTH" \/ matches_flag("Dot11ManagementFrame", flag)
      [] cls = "Dot11ProbeRequest" ->
             flag = "DOT11_PROBE_REQ"
             \/ matches_flag("Dot11ManagementFrame", flag)
      [] cls = "Dot11ProbeResponse" ->
             flag = "DOT11_PROBE_RESP"
             \/ matches_flag("Dot11ManagementFrame", flag)
      [] cls = "Dot11Data" -> flag = "DOT11_DATA" \/ matches_flag("Dot11", flag)
      [] cls = "Dot11QoSData" ->
             flag = "DOT11_QOS_DATA" \/ matches_flag("Dot11Data", flag)
      [] cls = "Dot11Control" ->
             flag = "DOT11_CONTROL" \/ matches_flag("Dot11", flag)
      [] cls = "Dot11ControlTA" -> matches_flag("Dot11Control", flag)
      [] cls = "Dot11RTS" ->
             flag = "DOT11_RTS" \/ matches_flag("Dot11Control", flag)
      [] cls = "Dot11PSPoll" ->
             flag = "DOT11_PS_POLL" \/ matches_flag("Dot11Control", flag)
      [] cls = "Dot11CFEnd" ->
             flag = "DOT11_CF_END" \/ matches_flag("Dot11Control", flag)
      [] cls = "Dot11EndCFAck" ->
             flag = "DOT11_END_CF_ACK" \/ matches_flag("Dot11Control", flag)
      [] cls = "Dot11Ack" ->
             flag = "DOT11_ACK" \/ matches_flag("Dot11Control", flag)
      [] cls = "Dot11BlockAckRequest" ->
             flag = "DOT11_BLOCK_ACK_REQ" \/ matches_flag("Dot11Control", flag)
      [] cls = "Dot11BlockAck" ->
             flag = "DOT11_BLOCK_ACK" \/ matches_flag("Dot11Control", flag)
      [] OTHER -> FALSE

\* frame.matches_flag(flag): the flag and the answer are kept in the call.
MatchesFlag(flag) ==
    /\ Alive
    /\ call' = Call("matches_flag", BoolToInt(matches_flag(frame.cls, flag)),
                    <<flag>>, "none")
    /\ UNCHANGED <<frame, copy, wire>>

\* frame.pdu_type(): the tag is kept in the call.
PduType ==
    /\ Alive
    /\ call' = Call("pdu_type", 0, <<pdu_type(frame.cls)>>, "none")
    /\ UNCHANGED <<frame, copy, wire>>

InitFlags ==
    /\ frame \in {NewFrame(cls, BROADCAST, <<>>) : cls \in Constructible}
    /\ copy = NoFrame
    /\ wire = NoBuffer
    /\ call = Call("constructor", 0, <<>>, "none")

NextFlags ==
    \/ \E flag \in PDUTypes : MatchesFlag(flag)
    \/ PduType

SpecFlags == InitFlags /\ [][NextFlags]_vars

(***************************************************************************)
(* SpecSeq: the sequence control of management and data frames.            *)
(***************************************************************************)
FragInputs == {3, 19}

SeqNumInputs == {291, 4101}

\* void frag_num(uint8_t new_frag_num): the field is four bits wide.
frag_num(new_frag_num) ==
    /\ Mutable
    /\ frame.cls \in ManagementClasses \cup DataClasses
    /\ frame' = [frame EXCEPT !.frag_number = new_frag_num % 16]
    /\ call' = Call("frag_num", new_frag_num, <<>>, "none")
    /\ UNCHANGED <<copy, wire>>

\* void seq_num(uint16_t new_seq_num): the field is twelve bits wide.
seq_num(new_seq_num) ==
    /\ Mutable
    /\ frame.cls \in ManagementClasses \cup DataClasses
    /\ frame' = [frame EXCEPT !.seq_number = new_seq_num % 4096]
    /\ call' = Call("seq_num", new_seq_num, <<>>, "none")
    /\ UNCHANGED <<copy, wire>>

InitSeq ==
    /\ frame \in {NewFrame(cls, BROADCAST, <<>>) :
                      cls \in ManagementVariants \cup DataClasses}
    /\ copy = NoFrame
    /\ wire = NoBuffer
    /\ call = Call("constructor", 0, <<>>, "none")

NextSeq ==
    \/ \E n \in FragInputs : frag_num(n)
    \/ \E n \in SeqNumInputs : seq_num(n)

SpecSeq == InitSeq /\ [][NextSeq]_vars

(***************************************************************************)
(* SpecControl: every setter of the frame control of a plain Dot11 frame,  *)
(* with arguments wider than the fields, and its serialization.            *)
(***************************************************************************)
ProtocolInputs == {6}

WideTypeInputs == {5}

WideSubtypeInputs == {28}

\* void protocol(uint8_t new_proto): the field is two bits wide.
protocol(new_proto) ==
    /\ Mutable
    /\ frame' = [frame EXCEPT !.protocol = new_proto % 4]
    /\ call' = Call("protocol", new_proto, <<>>, "none")
    /\ UNCHANGED <<copy, wire>>

more_frag(new_value) ==
    /\ Mutable
    /\ frame' = [frame EXCEPT !.more_frag = new_value]
    /\ call' = Call("more_frag", BoolToInt(new_value), <<>>, "none")
    /\ UNCHANGED <<copy, wire>>

retry(new_value) ==
    /\ Mutable
    /\ frame' = [frame EXCEPT !.retry = new_value]
    /\ call' = Call("retry", BoolToInt(new_value), <<>>, "none")
    /\ UNCHANGED <<copy, wire>>

power_mgmt(new_value) ==
    /\ Mutable
    /\ frame' = [frame EXCEPT !.power_mgmt = new_value]
    /\ call' = Call("power_mgmt", BoolToInt(new_value), <<>>, "none")
    /\ UNCHANGED <<copy, wire>>

wep(new_value) ==
    /\ Mutable
    /\ frame' = [frame EXCEPT !.wep = new_value]
    /\ call' = Call("wep", BoolToInt(new_value), <<>>, "none")
    /\ UNCHANGED <<copy, wire>>

order(new_value) ==
    /\ Mutable
    /\ frame' = [frame EXCEPT !.order = new_value]
    /\ call' = Call("order", BoolToInt(new_value), <<>>, "none")
    /\ UNCHANGED <<copy, wire>>

\* A plain frame, and one that was given an option.
InitControl ==
    /\ frame \in {NewFrame("Dot11", BROADCAST, <<>>),
                  add_tagged_option(NewFrame("Dot11", BROADCAST, <<>>),
                                    SSID, 1, <<97>>)}
    /\ copy = NoFrame
    /\ wire = NoBuffer
    /\ call = Call("constructor", 0, <<>>, "none")

NextControl ==
    \/ \E n \in ProtocolInputs : protocol(n)
    \/ \E n \in WideTypeInputs : type(n)
    \/ \E n \in WideSubtypeInputs : subtype(n)
    \/ \E v \in BOOLEAN : to_ds(v)
    \/ \E v \in BOOLEAN : from_ds(v)
    \/ \E v \in BOOLEAN : more_frag(v)
    \/ \E v \in BOOLEAN : retry(v)
    \/ \E v \in BOOLEAN : power_mgmt(v)
    \/ \E v \in BOOLEAN : wep(v)
    \/ \E v \in BOOLEAN : order(v)
    \/ Serialize
    \/ Release

SpecControl == InitControl /\ [][NextControl]_vars

(***************************************************************************)
(* The claims.                                                             *)
(***************************************************************************)
\* The frame holds the type and the subtype of its variant.
Legal(f) ==
    /\ f.cls \in ConcreteVariants
    /\ f.type = Canonical(f.cls).type
    /\ f.subtype = Canonical(f.cls).subtype

Parsed(b1) ==
    /\ call.op = "from_bytes"
    /\ call.err = "none"
    /\ Len(call.bytes) >= 2
    /\ call.bytes[1] = b1
    /\ call.bytes[2] = 0

\* C5 (amended): a parsed buffer with frame control 80 00 is a Beacon, one
\* with 40 00 a ProbeReq and one with 94 00 a BlockAck; C4 00 is type
\* CONTROL with subtype 12 (CTS) and is not a BlockAck.
C5_ParseDispatch ==
    /\ Parsed(128) => frame.cls = "Dot11Beacon"
    /\ Parsed(64) => frame.cls = "Dot11ProbeRequest"
    /\ Parsed(148) => frame.cls = "Dot11BlockAck"
    /\ Parsed(196) => /\ frame.cls # "Dot11BlockAck"
                      /\ frame.type = CONTROL
                      /\ frame.subtype = CTS

\* C5 witness: a buffer with frame control 94 00 was parsed to a BlockAck.
C5_Witness == Parsed(148) /\ frame.cls = "Dot11BlockAck"

\* C5 (as stated): 80 00 parses to a Beacon, 40 00 to a ProbeReq and C4 00
\* to a BlockAck.
C5_Original ==
    /\ Parsed(128) => frame.cls = "Dot11Beacon"
    /\ Parsed(64) => frame.cls = "Dot11ProbeRequest"
    /\ Parsed(196) => frame.cls = "Dot11BlockAck"

\* The bytes a list of options takes: the sum of 2 + length over the list.
RECURSIVE OptSum(_)
OptSum(opts) ==
    IF opts = <<>> THEN 0 ELSE 2 + Head(opts).length + OptSum(Tail(opts))

\* The positions of the options of a list that carry the tag t.
Tagged(opts, t) == {i \in 1..Len(opts) : opts[i].option = t}

Least(S) == CHOOSE i \in S : \A j \in S : i <= j

\* C6 (as stated): a call of add_tagged_option with a value of 255 bytes
\* stores an option of length 255 that holds the 255 bytes; a call with a
\* value of 256 bytes or more fails with OptionTooLong and leaves the option
\* list and the accumulated option size as they were.
C6_OptionLengthBoundary ==
    [][call'.op = "add_tagged_option" =>
          /\ call'.n = 255 =>
                /\ call'.err = "none"
                /\ Len(frame'.options) = Len(frame.options) + 1
                /\ frame'.options[Len(frame'.options)].length = 255
                /\ Len(frame'.options[Len(frame'.options)].value) = 255
          /\ call'.n >= 256 =>
                /\ call'.err = "OptionTooLong"
                /\ frame'.options = frame.options
                /\ frame'.options_size = frame.options_size]_vars

\* Each call that adds an option leaves the options already there in place
\* and puts the new one, with the tag of the call, behind them.
C7_Step ==
    call'.op = "add_tagged_option" =>
        /\ Len(frame'.options) = Len(frame.options) + 1
        /\ SubSeq(frame'.options, 1, Len(frame.options)) = frame.options
        /\ frame'.options[Len(frame'.options)].option = call'.bytes[1]

\* In a serialized frame the i-th option of the list starts where the
\* options before it end, behind the headers and the fixed parameters.
C7_Wire ==
    (wire.held /\ Alive) =>
        \A i \in 1..Len(frame.options) :
            LET o == frame.options[i]
                off == Len(write_header(frame)) + Len(write_ext_header(frame))
                       + Len(write_fixed_parameters(frame))
                       + OptSum(SubSeq(frame.options, 1, i - 1))
            IN  /\ Len(wire.bytes) >= off + 2 + o.length
                /\ wire.bytes[off + 1] = o.option
                /\ wire.bytes[off + 2] = o.length
                /\ SubSeq(wire.bytes, off + 3, off + 2 + o.length) = o.value

\* search_option gives the first option of the list with the tag, or 0.
C7_Search ==
    Alive =>
        \A t \in {SSID, SUPPORTED_RATES, DS_SET} :
            search_option(frame, t)
                = IF Tagged(frame.options, t) = {} THEN 0
                  ELSE Least(Tagged(frame.options, t))

\* C7: after any sequence of add_tagged_option calls, duplicate tags
\* included, the options are serialized in the order in which they were
\* added, and search_option(t) gives the earliest-added option with tag t,
\* or 0 when no option with tag t has been added.
C7_OptionOrder == [](C7_Wire /\ C7_Search) /\ [][C7_Step]_vars

\* C7 witness: a serialized frame with two different options of one tag,
\* the second of them added by the last add_tagged_option.
C7_Witness ==
    /\ wire.held /\ Alive
    /\ Len(frame.options) >= 2
    /\ frame.options[1].option = frame.options[2].option
    /\ frame.options[1] # frame.options[2]
    /\ search_option(frame, frame.options[2].option) = 1

\* A chain of complete tag | length | value records.
RECURSIVE WellFormed(_)
WellFormed(chain) ==
    \/ chain = <<>>
    \/ /\ Len(chain) >= 2
       /\ chain[2] <= Len(chain) - 2
       /\ WellFormed(Drop(chain, 2 + chain[2]))

\* The last call parsed a buffer that holds the headers and the fixed
\* parameters of the management class its frame control selects.
ParsedManagement ==
    /\ call.op = "from_bytes"
    /\ Len(call.bytes) >= sizeof_ieee80211_header
    /\ dispatch(control_type(call.bytes[1]), control_subtype(call.bytes[1]))
           \in ManagementClasses
    /\ Len(call.bytes) >= sizeof_ieee80211_header + sizeof_ExtendedHeader
           + sizeof_body(dispatch(control_type(call.bytes[1]),
                                  control_subtype(call.bytes[1])))

\* The option chain of the buffer of the last call.
ChainOf(b) ==
    Drop(b, sizeof_ieee80211_header + sizeof_ExtendedHeader
            + sizeof_body(dispatch(control_type(b[1]), control_subtype(b[1]))))

\* C8: parsing the option chain of a management frame takes records until
\* the buffer is exhausted: a chain of complete records gives a frame whose
\* options are every byte of the chain, and a chain with a record whose
\* length exceeds the bytes left, or with fewer than 2 bytes left for a
\* record, fails with Truncated and gives no frame.
C8_TruncatedChain ==
    ParsedManagement =>
        IF WellFormed(ChainOf(call.bytes))
        THEN /\ call.err = "none"
             /\ Alive
             /\ write_options(frame.options) = ChainOf(call.bytes)
        ELSE /\ call.err = "Truncated"
             /\ frame = NoFrame

\* C8 witness: a probe request whose chain is one complete record followed
\* by a record that declares 4 bytes with 1 left was parsed and failed.
C8_Witness ==
    /\ ParsedManagement
    /\ ChainOf(call.bytes) = <<0, 1, 97, 3, 4, 6>>
    /\ call.err = "Truncated"

\* The option bookkeeping of one frame.
OptionsAccounted(f) ==
    /\ f.options_size = OptSum(f.options)
    /\ \A i \in 1..Len(f.options) :
           f.options[i].length = Len(f.options[i].value)

\* C9: in every reachable state, of the frame and of its copy, the tracked
\* option size is the sum of 2 + length over the stored options, and each
\* stored length is the number of value bytes the option holds.
C9_OptionsSize ==
    /\ Alive => OptionsAccounted(frame)
    /\ copy # NoFrame => OptionsAccounted(copy)

\* C9 witness: a copy with options exists, and the frame has since got
\* further options, one of 255 bytes and one made from a 256-byte buffer.
C9_Witness ==
    /\ Alive /\ copy # NoFrame
    /\ Len(copy.options) >= 1
    /\ Len(frame.options) > Len(copy.options)
    /\ \E i \in 1..Len(frame.options) : frame.options[i].length = 255
    /\ call.op = "add_tagged_option" /\ call.n = 256

\* The tag an IE helper sets.
HelperTag(op) == IF op = "ssid" THEN SSID ELSE DS_SET

\* C10 (as stated): when a helper is called again on a frame that holds the
\* one option the first call made, the frame holds exactly one option with
\* the tag of the helper afterwards, with the value of the last call, and
\* header_size() changes by the difference of the two values' lengths.
C10_HelperReplaces ==
    [][(/\ call.op \in {"ssid", "ds_parameter_set"}
        /\ call'.op = call.op
        /\ Cardinality(Tagged(frame.options, HelperTag(call.op))) = 1)
       => LET t == HelperTag(call.op)
              old == frame.options[Least(Tagged(frame.options, t))]
          IN  /\ Cardinality(Tagged(frame'.options, t)) = 1
              /\ frame'.options[Least(Tagged(frame'.options, t))].value
                     = call'.bytes
              /\ header_size(frame')
                     = header_size(frame) - old.length + Len(call'.bytes)]_vars

\* The last option of the frame, and the one before it.
LastOption == frame.options[Len(frame.options)]

OptionBeforeLast == frame.options[Len(frame.options) - 1]

\* The rate bytes the last supported_rates call stored: those of the
\* Supported Rates option, then those of the extended one if it made one.
RatesStored ==
    IF LastOption.option = EXT_SUPPORTED_RATES /\ Len(frame.options) >= 2
    THEN OptionBeforeLast.value \o LastOption.value
    ELSE LastOption.value

\* C11: supported_rates stores each rate r (Mbps, a multiple of 0.5) as the
\* byte 2*r with the bit 0x80 set, in the order of the list; the list
\* {1.0, 2.0, 5.5, 11.0, 6.0} is stored as 0x82 0x84 0x8B 0x96 0x8C, and
\* decoding the stored bytes gives the list back.
C11_RateEncoding ==
    call.op = "supported_rates" =>
        /\ Len(frame.options) >= 1
        /\ Len(RatesStored) = Len(call.bytes)
        /\ \A i \in 1..Len(call.bytes) :
               /\ i <= Len(RatesStored)
               /\ RatesStored[i] = 128 + (2 * call.bytes[i]) \div 10
               /\ decode_rate(RatesStored[i]) = call.bytes[i]
        /\ call.bytes = <<10, 20, 55, 110, 60>> =>
               /\ LastOption.option = SUPPORTED_RATES
               /\ LastOption.value = <<130, 132, 139, 150, 140>>

\* C11 witness: the last call stored the list {1.0, 2.0, 5.5, 11.0, 6.0}.
C11_Witness ==
    /\ call.op = "supported_rates"
    /\ call.bytes = <<10, 20, 55, 110, 60>>
    /\ LastOption.length = 5

C13_Wpa2Psk ==
    /\ wpa2_psk.version = 1
    /\ wpa2_psk.group_suite = CCMP
    /\ wpa2_psk.pairwise_cyphers = <<CCMP>>
    /\ wpa2_psk.akm_cyphers = <<PSK>>
    /\ wpa2_psk.capabilities = 0
    /\ (call.op = "rsn_information" /\ call.bytes = wpa2_psk) =>
           /\ LastOption.option = RSN
           /\ LastOption.length = 20
           /\ LastOption.value
                  = <<1, 0, 0, 15, 172, 4, 1, 0, 0, 15, 172, 4,
                      1, 0, 0, 15, 172, 2, 0, 0>>

\* C13 witness: the last call stored wpa2_psk() in a frame.
C13_Witness ==
    /\ call.op = "rsn_information"
    /\ call.bytes = wpa2_psk
    /\ LastOption.option = RSN

\* A payload that holds every fixed field and every suite its counts
\* declare.
RsnWellFormed(b) ==
    /\ Len(b) >= 8
    /\ Len(b) >= 8 + 4 * word16(b[7], b[8]) + 2
    /\ LET a0 == 8 + 4 * word16(b[7], b[8])
       IN  Len(b) >= a0 + 2 + 4 * word16(b[a0 + 1], b[a0 + 2]) + 2

WireBytes(i, j) == SubSeq(wire.bytes, i, j)

\* A serialized block ack request, still held by the caller.
SerializedBlockAckRequest ==
    wire.held /\ Alive /\ frame.cls = "Dot11BlockAckRequest"

\* C15: in a serialized block ack request the bar control follows the
\* transmitter address, the TID in the high 4 bits of a little-endian word:
\* TID 5 with the reserved bits zero is the bytes 00 50; the start sequence
\* follows, fragment 0 and sequence number 0x123 being the bytes 30 12.
C15_BlockAckReqEncoding ==
    SerializedBlockAckRequest =>
        /\ (frame.bar_tid = 5 /\ frame.bar_reserved = 0)
               => WireBytes(17, 18) = <<0, 80>>
        /\ (frame.ss_frag = 0 /\ frame.ss_seq = 291)
               => WireBytes(19, 20) = <<48, 18>>

\* C15 witness: a block ack request of TID 5, fragment 0 and sequence number
\* 0x123 has been serialized.
C15_Witness ==
    /\ SerializedBlockAckRequest
    /\ frame.bar_tid = 5 /\ frame.bar_reserved = 0
    /\ frame.ss_frag = 0 /\ frame.ss_seq = 291

\* C15 as stated: TID 5 is the bytes 50 00.
C15_Original ==
    SerializedBlockAckRequest =>
        /\ (frame.bar_tid = 5 /\ frame.bar_reserved = 0)
               => WireBytes(17, 18) = <<80, 0>>
        /\ (frame.ss_frag = 0 /\ frame.ss_seq = 291)
               => WireBytes(19, 20) = <<48, 18>>

\* C16: a block ack carries a bitmap of 64 bits (8 bytes) after the bar
\* control and the start sequence: its header_size() is 10 + 6 + 2 + 2 + 8
\* = 28 plus its options, its serialization holds the 8 bytes of the bitmap
\* at offset 20, and bitmap(buffer) stores the first 8 bytes of the buffer,
\* which are what bitmap() then points to.
C16_BlockAckBitmap ==
    (Alive /\ frame.cls = "Dot11BlockAck") =>
        /\ Len(frame.bitmap) = 8
        /\ header_size(frame) = 10 + 6 + 2 + 2 + 8 + frame.options_size
        /\ wire.held =>
               /\ WireBytes(21, 28) = frame.bitmap
               /\ Len(wire.bytes) = 28 + frame.options_size + child_size(frame)
        /\ call.op = "bitmap" => frame.bitmap = SubSeq(call.bytes, 1, 8)

\* C16 witness: bitmap() was called with a buffer of 16 bytes and the block
\* ack has been serialized since.
C16_Witness ==
    /\ Alive /\ frame.cls = "Dot11BlockAck" /\ wire.held
    /\ \E b \in BitmapInputs : Len(b) = 16 /\ frame.bitmap = SubSeq(b, 1, 8)

\* C16 as stated: a bitmap of 16 bytes and a header of 36.
C16_Original ==
    (Alive /\ frame.cls = "Dot11BlockAck") =>
        /\ header_size(frame) = 10 + 6 + 2 + 2 + 16 + frame.options_size
        /\ wire.held => WireBytes(21, 36) = frame.bitmap
        /\ call.op = "bitmap" => frame.bitmap = call.bytes

\* A CTS frame: the class has none of its own, it is a generic control frame
\* whose subtype is CTS.
IsCTS(f) == f.cls = "Dot11Control" /\ f.type = CONTROL /\ f.subtype = CTS

OwnAndAncestorTags(cls) ==
    {pdu_type(cls)}
    \cup {pdu_type(ancestors(cls)[i]) : i \in 1..Len(ancestors(cls))}

\* The nearest class above cls that stands for a kind of frame:
\* Dot11ControlTA has no tag of its own and is passed over.
VariantParent(cls) ==
    IF base_class(cls) = "Dot11ControlTA" THEN "Dot11Control"
    ELSE base_class(cls)

\* The other frame variants under the same parent.
Siblings(cls) ==
    {s \in Constructible \ {cls} : VariantParent(s) = VariantParent(cls)}

\* C18: matches_flag(t) of a frame is true if and only if t is the tag of
\* the class of the frame or of a class it derives from, and no frame matches
\* the tag of a sibling variant.
C18_MatchesFlag ==
    call.op = "matches_flag" =>
        /\ (call.n = 1) <=> (call.bytes[1] \in OwnAndAncestorTags(frame.cls))
        /\ (call.n = 1) =>
               \A s \in Siblings(frame.cls) : call.bytes[1] # pdu_type(s)

\* The calls that make one frame a copy of the other.
CopyCalls == {"copy", "operator=", "clone_pdu"}

C20_TypeDomain ==
    Alive => frame.type \in {MANAGEMENT, CONTROL, DATA}

\* The type and the subtype of the buffer the last call parsed.
ParsedType == control_type(call.bytes[1])

ParsedSubtype == control_subtype(call.bytes[1])

\* The generic class of a type.
GenericClass(ty) ==
    CASE ty = MANAGEMENT -> "Dot11ManagementFrame"
      [] ty = CONTROL -> "Dot11Control"
      [] OTHER -> "Dot11Data"

\* No concrete variant stands for (ty, sub).
NotAVariant(ty, sub) ==
    /\ ty \in {MANAGEMENT, CONTROL, DATA}
    /\ \A v \in ConcreteVariants :
           Canonical(v) # [type |-> ty, subtype |-> sub]

\* C21: a buffer of 24 bytes or more whose (type, subtype) is that of no
\* concrete variant parses without error to a frame that matches the tag of
\* the generic class of its type and the tag of no concrete variant.
C21_UnknownSubtype ==
    (/\ call.op = "from_bytes" /\ Len(call.bytes) >= 24
     /\ NotAVariant(ParsedType, ParsedSubtype)) =>
        /\ call.err = "none"
        /\ matches_flag(frame.cls, pdu_type(GenericClass(ParsedType)))
        /\ \A v \in ConcreteVariants :
               pdu_type(v) # pdu_type(GenericClass(ParsedType))
                   => ~matches_flag(frame.cls, pdu_type(v))

\* The bytes the variant a buffer selects needs: the common header, its
\* extended header and its fixed parameters.
RequiredBytes(b) ==
    LET cls == dispatch(control_type(b[1]), control_subtype(b[1]))
        both_ds == Len(b) >= 2 /\ b[2] % 4 = 3
    IN  10
        + (CASE cls \in ManagementVariants -> 14
             [] cls \in DataClasses -> IF both_ds THEN 20 ELSE 14
             [] cls = "Dot11BlockAckRequest" -> 10
             [] cls = "Dot11BlockAck" -> 18
             [] cls \in ControlTAClasses -> 6
             [] OTHER -> 0)
        + (CASE cls = "Dot11Beacon" -> 12
             [] cls = "Dot11ProbeResponse" -> 16
             [] cls \in {"Dot11Disassoc", "Dot11Deauthentication"} -> 2
             [] cls = "Dot11AssocRequest" -> 4
             [] cls \in {"Dot11AssocResponse", "Dot11ReAssocResponse"} -> 6
             [] cls = "Dot11ReAssocRequest" -> 10
             [] cls = "Dot11Authentication" -> 6
             [] cls = "Dot11QoSData" -> 2
             [] OTHER -> 0)

\* C22: parsing a buffer shorter than the common header, the extended header
\* and the fixed parameters of the variant it selects fails with Truncated
\* and gives no frame; a parse that gives a frame had all these bytes, and
\* its header fields are the bytes of the buffer, none a default.
C22_TruncatedHeader ==
    call.op = "from_bytes" =>
        /\ Len(call.bytes) < RequiredBytes(call.bytes)
               => (call.err = "Truncated" /\ frame = NoFrame)
        /\ call.err = "none" =>
               /\ Len(call.bytes) >= RequiredBytes(call.bytes)
               /\ frame.addr1 = SubSeq(call.bytes, 5, 10)
               /\ frame.duration_id = word16(call.bytes[3], call.bytes[4])

\* C22 witness: a beacon buffer of 28 bytes, which holds the extended header
\* and not the 12 bytes of fixed parameters, failed with Truncated.
C22_Witness ==
    /\ call.op = "from_bytes" /\ call.err = "Truncated" /\ frame = NoFrame
    /\ Len(call.bytes) = 28 /\ call.bytes[1] = 128

C24_SeqControl ==
    /\ []((Alive /\ frame.cls \in ManagementClasses \cup DataClasses) =>
              SubSeq(write_ext_header(frame), 13, 14)
                  = LE16(16 * frame.seq_number + frame.frag_number))
    /\ [][/\ call'.op = "frag_num" =>
                 /\ frame'.frag_number = call'.n % 16
                 /\ frame'.seq_number = frame.seq_number
          /\ call'.op = "seq_num" =>
                 /\ frame'.seq_number = call'.n % 4096
                 /\ frame'.frag_number = frame.frag_number]_vars

\* The beacon that holds the fields, the options and the child of a probe
\* response.
AsBeacon(f) == [f EXCEPT !.cls = "Dot11Beacon", !.body = SubSeq(f.body, 1, 12)]

\* C25: the fixed parameters of a probe response are the 12 bytes of those
\* of a beacon (timestamp 8, interval 2, capability 2), so a probe response
\* and a beacon with the same options have the same header_size() and, on
\* the wire, differ in the subtype bits of the first byte alone.
C25_ProbeRespBody ==
    (Alive /\ frame.cls = "Dot11ProbeResponse") =>
        LET p == write_serialization(frame)
            b == write_serialization(AsBeacon(frame))
        IN  /\ Len(write_fixed_parameters(frame)) = 12
            /\ header_size(frame) = header_size(AsBeacon(frame))
            /\ Len(p) = Len(b)
            /\ \A i \in 2..Len(p) : p[i] = b[i]
            /\ p[1] % 16 = b[1] % 16

C27_PduTypeInjective ==
    (call.op = "pdu_type" /\ frame.cls \in ConcreteVariants) =>
        \A v \in ConcreteVariants \ {frame.cls} : pdu_type(v) # call.bytes[1]

SetterStep(op, after) == call'.op = op => frame' = after

\* C29: each frame-control setter stores its argument, reduced modulo 2^w for
\* the width w of its field, in its own field and changes nothing else of
\* the frame; on the wire the protocol is bits 0-1, the type bits 2-3 and
\* the subtype bits 4-7 of the first byte, and to_ds, from_ds, more_frag,
\* retry, power_mgmt, more_data, wep and order are bits 0 to 7 of the second.
C29_ControlSetters ==
    /\ [][/\ SetterStep("protocol", [frame EXCEPT !.protocol = call'.n % 4])
          /\ SetterStep("type", [frame EXCEPT !.type = call'.n % 4])
          /\ SetterStep("subtype", [frame EXCEPT !.subtype = call'.n % 16])
          /\ SetterStep("to_ds", [frame EXCEPT !.to_ds = (call'.n = 1)])
          /\ SetterStep("from_ds", [frame EXCEPT !.from_ds = (call'.n = 1)])
          /\ SetterStep("more_frag", [frame EXCEPT !.more_frag = (call'.n = 1)])
          /\ SetterStep("retry", [frame EXCEPT !.retry = (call'.n = 1)])
          /\ SetterStep("power_mgmt",
                        [frame EXCEPT !.power_mgmt = (call'.n = 1)])
          /\ SetterStep("wep", [frame EXCEPT !.wep = (call'.n = 1)])
          /\ SetterStep("order", [frame EXCEPT !.order = (call'.n = 1)])]_vars
    /\ [](wire.held =>
              /\ wire.bytes[1] % 4 = frame.protocol
              /\ (wire.bytes[1] \div 4) % 4 = frame.type
              /\ wire.bytes[1] \div 16 = frame.subtype
              /\ bit(wire.bytes[2], 0) = frame.to_ds
              /\ bit(wire.bytes[2], 1) = frame.from_ds
              /\ bit(wire.bytes[2], 2) = frame.more_frag
              /\ bit(wire.bytes[2], 3) = frame.retry
              /\ bit(wire.bytes[2], 4) = frame.power_mgmt
              /\ bit(wire.bytes[2], 5) = frame.more_data
              /\ bit(wire.bytes[2], 6) = frame.wep
              /\ bit(wire.bytes[2], 7) = frame.order)

\* C29 witness: protocol(6), type(5) and subtype(28) stored 2, 1 and 12,
\* from_ds, retry, wep and order are set, the frame still holds its option,
\* and it has been serialized: the frame control is C6 CA.
C29_Witness ==
    /\ wire.held
    /\ frame.protocol = 2 /\ frame.type = 1 /\ frame.subtype = 12
    /\ ~frame.to_ds /\ frame.from_ds /\ ~frame.more_frag /\ frame.retry
    /\ ~frame.power_mgmt /\ frame.wep /\ frame.order
    /\ Len(frame.options) = 1
    /\ wire.bytes[1] = 198 /\ wire.bytes[2] = 202

\* C30: in a block ack request and a block ack, bar_control(x) followed by
\* bar_control() gives x, and start_sequence(x) followed by start_sequence()
\* gives x.
C30_AccessorRoundTrip ==
    /\ call.op = "bar_control" => bar_control_getter(frame) = call.n
    /\ call.op = "start_sequence" => start_sequence_getter(frame) = call.n

====
